---- MODULE Spec2Model ----
(***************************************************************************)
(* fordownload: the options builder and the in-process download runner of  *)
(* download.py, and the subprocess worker and main window of gui.py.        *)
(*                                                                         *)
(* Text that the code inspects (paths, output lines) is a sequence of      *)
(* one-character strings.  A format selector is the sequence of its        *)
(* '/'-separated alternatives, in order.  An optional integer is <<>>      *)
(* (Python None) or <<n>>.                                                 *)
(***************************************************************************)
EXTENDS Integers, Sequences, FiniteSets, TLC

VARIABLES
    program,        \* which entry point runs: "opts", "cli", "lib" or "gui"
    \* ---- download.py
    args,           \* the argparse.Namespace
    urls,           \* the URL list handed to main / download
    hasCb,          \* download(): a progress_callback was given
    installed,      \* the module-level yt_dlp is not None
    cpc,            \* position in main / download
    exitCode,       \* what main returns (or argparse exits with); -1 before
    opts,           \* the dict build_ydl_opts returned; <<>> before
    libCalls,       \* the URL lists ydl.download was started with
    hookLog,        \* the records the library passed to the hook, with outcome
    forwarded,      \* the records progress_callback was called with
    stdout,         \* what _progress printed
    \* ---- gui.py
    start_btn,      \* start_btn.isEnabled()
    worker,         \* self.worker: the Worker's fields
    wpc,            \* position of Worker.run
    proc,           \* self.proc: the command of the Popen, <<>> before
    current_file,   \* run's local current_file
    exc,            \* the exception run is handling, <<>> when none
    ret,            \* run's local ret, the tool's exit status; -1 before
    sigQueue,       \* signals queued to the main thread, not yet dispatched
    log,            \* entries appended to self.log since the last start()
    progress_bar,   \* progress_bar.value()
    file_label,     \* file_label.text()
    written,        \* what the external tool wrote in this run, in order
    delivered,      \* the signals the main thread dispatched in this run
    activeWorkers,  \* Worker.run invocations started and not yet finished
    procsRunning    \* external processes started and not yet exited

cliVars == <<args, urls, hasCb, installed, cpc, exitCode, opts, libCalls,
             hookLog, forwarded, stdout>>
guiVars == <<start_btn, worker, wpc, proc, current_file, exc, ret, sigQueue, log,
             progress_bar, file_label, written, delivered, activeWorkers,
             procsRunning>>
vars == <<program, cliVars, guiVars>>

----------------------------------------------------------------------------
(* Bounds *)

\* lines the external tool writes in one run of the worker
MaxLines == 3
\* progress records the library passes to the hook in one download()
MaxRecords == 3

----------------------------------------------------------------------------
(* Python values and text *)

None == <<>>
Some(n) == <<n>>

\* Python truthiness of an optional integer: None and 0 are falsy
Truthy(q) == q # None /\ q[1] # 0

Digits == <<"0", "1", "2", "3", "4", "5", "6", "7", "8", "9">>
IsDigit(c) == \E i \in 1..10 : Digits[i] = c
DigitVal(c) == (CHOOSE i \in 1..10 : Digits[i] = c) - 1

RECURSIVE StrNat(_)
StrNat(n) == IF n < 10 THEN <<Digits[n + 1]>>
             ELSE StrNat(n \div 10) \o <<Digits[(n % 10) + 1]>>

\* str(n) of an int
Str(n) == IF n < 0 THEN <<"-">> \o StrNat(0 - n) ELSE StrNat(n)

RECURSIVE IntOfDigits(_)
IntOfDigits(s) == IF s = <<>> THEN 0
                  ELSE 10 * IntOfDigits(SubSeq(s, 1, Len(s) - 1)) + DigitVal(s[Len(s)])

IsPrefix(p, s) == Len(p) <= Len(s) /\ SubSeq(s, 1, Len(p)) = p

\* dict[key] = value
SetKey(d, k, v) == [x \in DOMAIN d \cup {k} |-> IF x = k THEN v ELSE d[x]]

----------------------------------------------------------------------------
(* download.py: build_ydl_opts *)

\* '%(title)s.%(ext)s'
Template == <<"%", "(", "t", "i", "t", "l", "e", ")", "s", ".",
              "%", "(", "e", "x", "t", ")", "s">>

\* os.path.join(a, b) on POSIX
PathJoin(a, b) ==
    IF b # <<>> /\ b[1] = "/" THEN b
    ELSE IF a = <<>> \/ a[Len(a)] = "/" THEN a \o b
    ELSE a \o <<"/">> \o b

DefaultQuality == 192

QualityIgnored(q) == DefaultQuality

\* args.quality or 192
QualityOrDefault(q) == IF Truthy(q) THEN q[1] ELSE DefaultQuality

\* 'bestvideo[height<=1080]+bestaudio/best[height<=1080]'
Mp4Format == <<"bestvideo[height<=1080]+bestaudio", "best[height<=1080]">>
\* 'bestaudio/best'
Mp3Format == <<"bestaudio", "best">>
\* 'best'
GenericFormat == <<"best">>

OuttmplNoDir(a) == Template

\* line 27
Outtmpl(a) == IF a.output # <<>> THEN PathJoin(a.output, Template) ELSE Template

Postprocessors(a) ==
    << [key |-> "FFmpegExtractAudio",
        preferredcodec |-> "mp3",
        preferredquality |-> Str(QualityOrDefault(a.quality))] >>

build_ydl_opts(a) ==
    LET outtmpl == Outtmpl(a)
        common_opts == [outtmpl |-> outtmpl,
                        noplaylist |-> ~a.playlist,
                        quiet |-> FALSE,
                        no_warnings |-> TRUE,
                        ignoreerrors |-> TRUE]
        withFormat ==
            IF a.format = "mp4" THEN SetKey(common_opts, "format", Mp4Format)
            ELSE IF a.format = "mp3" THEN
                SetKey(SetKey(common_opts, "format", Mp3Format),
                       "postprocessors", Postprocessors(a))
            ELSE SetKey(common_opts, "format", GenericFormat)
    IN  IF a.overwrite THEN SetKey(withFormat, "outtmpl", outtmpl)
        ELSE SetKey(withFormat, "nopart", FALSE)

\* the requests the options builder is applied to
OutputDirs == { <<>>, <<".">>, <<"/", "t">>, <<"o", "/">> }
Formats == {"mp4", "mp3", "generic"}
Qualities == {None, Some(0), Some(64), Some(256), Some(320)}
AllArgs == [output : OutputDirs, format : Formats, quality : Qualities,
            playlist : BOOLEAN, overwrite : BOOLEAN]

----------------------------------------------------------------------------
(* Initial values of the state each entry point leaves alone *)

NoArgs == [output |-> <<".">>, format |-> "mp4", quality |-> None,
           playlist |-> FALSE, overwrite |-> FALSE]
NoWorker == [urls |-> <<>>, output |-> <<>>, fmt |-> "", quality |-> 0]

CliIdle ==
    /\ args = NoArgs /\ urls = <<>> /\ hasCb = FALSE /\ installed = TRUE
    /\ cpc = "init" /\ exitCode = -1 /\ opts = <<>> /\ libCalls = <<>>
    /\ hookLog = <<>> /\ forwarded = <<>> /\ stdout = <<>>

GuiIdle ==
    /\ start_btn = TRUE /\ worker = NoWorker /\ wpc = "none" /\ proc = <<>>
    /\ current_file = <<>> /\ exc = <<>> /\ ret = -1 /\ sigQueue = <<>> /\ log = <<>>
    /\ progress_bar = 0 /\ file_label = <<>> /\ written = <<>>
    /\ delivered = <<>> /\ activeWorkers = 0 /\ procsRunning = 0

----------------------------------------------------------------------------
(* download.py: the progress hook of download() *)

\* a value of a progress record: None, an int, or a str (by id; 0 is '')
PyNone == <<"none", 0>>
PyInt(n) == <<"int", n>>
PyStr(k) == <<"str", k>>
PyTruthy(v) == v[1] # "none" /\ v[2] # 0
PyOr(a, b) == IF PyTruthy(a) THEN a ELSE b

\* dict.get of a key the record may lack: status "" and PyNone stand for absent
Rec(st, total, est, down, fname) ==
    [isdict |-> TRUE, status |-> st, total_bytes |-> total,
     total_bytes_estimate |-> est, downloaded_bytes |-> down, filename |-> fname]
\* an object that is no dict at all
NotADict == [isdict |-> FALSE, status |-> "", total_bytes |-> PyNone,
             total_bytes_estimate |-> PyNone, downloaded_bytes |-> PyNone,
             filename |-> PyNone]

Printed(what, fname, down, total) ==
    [what |-> what, filename |-> fname, downloaded |-> down, total |-> total]

\* lines 77-88, the body of the try: whether it raised, what it passed to the
\* callback, what it printed
ProgressTry(d, cb, cbRaises) ==
    IF cb THEN [exc |-> cbRaises, fwd |-> <<d>>, out |-> <<>>]
    ELSE IF ~d.isdict THEN [exc |-> TRUE, fwd |-> <<>>, out |-> <<>>]
    ELSE IF d.status = "downloading" THEN
        LET total == PyOr(d.total_bytes, d.total_bytes_estimate)
            downloaded == d.downloaded_bytes
        IN  IF PyTruthy(total) /\ PyTruthy(downloaded) THEN
                IF total[1] = "int" /\ downloaded[1] = "int" THEN
                    [exc |-> FALSE, fwd |-> <<>>,
                     out |-> <<Printed("Downloading", d.filename,
                                       downloaded[2], total[2])>>]
                ELSE [exc |-> TRUE, fwd |-> <<>>, out |-> <<>>]
            ELSE [exc |-> FALSE, fwd |-> <<>>, out |-> <<>>]
    ELSE IF d.status = "finished" THEN
        [exc |-> FALSE, fwd |-> <<>>,
         out |-> <<Printed("Finished", d.filename, 0, 0)>>]
    ELSE [exc |-> FALSE, fwd |-> <<>>, out |-> <<>>]

ProgressNoExcept(d, cb, cbRaises) ==
    LET t == ProgressTry(d, cb, cbRaises)
    IN  [raised |-> t.exc, fwd |-> t.fwd, out |-> t.out]

\* lines 75-91: except Exception: pass
_progress(d, cb, cbRaises) ==
    LET t == ProgressTry(d, cb, cbRaises)
    IN  [raised |-> FALSE, fwd |-> t.fwd, out |-> t.out]

\* the records the library is taken to report
Records ==
    { Rec("downloading", PyInt(100), PyNone, PyInt(50), PyStr(1)),
      Rec("downloading", PyNone, PyStr(2), PyInt(50), PyStr(1)),
      Rec("finished", PyNone, PyNone, PyNone, PyStr(1)),
      NotADict }
Malformed(d) == ~d.isdict \/ d.total_bytes_estimate[1] = "str"

UrlLists == { <<>>, <<"u1">>, <<"u1", "u2">> }
\* what parse_args can return besides the URLs: --format is mp4 or mp3
CliArgs == {a \in AllArgs : /\ a.output = <<".">> /\ a.format \in {"mp4", "mp3"}
                            /\ a.quality = None /\ ~a.playlist /\ ~a.overwrite}

----------------------------------------------------------------------------
(* download.py: main, parse_args, download *)

InitCli ==
    /\ program = "cli"
    /\ args \in CliArgs
    /\ urls \in UrlLists
    /\ hasCb = FALSE
    /\ installed \in BOOLEAN
    /\ cpc = "init" /\ exitCode = -1 /\ opts = <<>> /\ libCalls = <<>>
    /\ hookLog = <<>> /\ forwarded = <<>> /\ stdout = <<>>
    /\ GuiIdle

\* download() called by another module, with or without a progress_callback
InitLib ==
    /\ program = "lib"
    /\ args \in CliArgs
    /\ urls \in UrlLists
    /\ hasCb \in BOOLEAN
    /\ installed \in BOOLEAN
    /\ cpc = "init" /\ exitCode = -1 /\ opts = <<>> /\ libCalls = <<>>
    /\ hookLog = <<>> /\ forwarded = <<>> /\ stdout = <<>>
    /\ GuiIdle

\* parse_args: nargs='+' makes argparse exit with status 2 when no URL is given
ParseArgs ==
    /\ program = "cli"
    /\ cpc = "init"
    /\ IF urls = <<>>
       THEN cpc' = "exited" /\ exitCode' = 2
       ELSE cpc' = "parsed" /\ exitCode' = exitCode
    /\ UNCHANGED <<program, args, urls, hasCb, installed, opts, libCalls,
                   hookLog, forwarded, stdout, guiVars>>

\* how download() ending by an exception shows: main returns 1, a caller sees it
Raised == IF program = "cli" THEN "exited" ELSE "raised"

\* download(), lines 69-96 up to the library call
Download ==
    /\ \/ program = "cli" /\ cpc = "parsed"
       \/ program = "lib" /\ cpc = "init"
    /\ IF ~installed
       THEN /\ cpc' = Raised
            /\ exitCode' = IF program = "cli" THEN 1 ELSE exitCode
            /\ UNCHANGED <<opts, libCalls>>
       ELSE /\ opts' = SetKey(build_ydl_opts(args), "progress_hooks", <<"_progress">>)
            /\ libCalls' = Append(libCalls, urls)
            /\ cpc' = "library"
            /\ exitCode' = exitCode
    /\ UNCHANGED <<program, args, urls, hasCb, installed, hookLog, forwarded,
                   stdout, guiVars>>

\* ydl.download(urls) reports a record of the item it is working on to the hook
LibProgress(d, cbRaises) ==
    /\ program \in {"cli", "lib"}
    /\ cpc = "library"
    /\ urls # <<>>
    /\ Len(hookLog) < MaxRecords
    /\ LET r == _progress(d, hasCb, cbRaises)
       IN  /\ hookLog' = Append(hookLog, [d |-> d, cbRaised |-> hasCb /\ cbRaises,
                                          returned |-> ~r.raised])
           /\ forwarded' = forwarded \o r.fwd
           /\ stdout' = stdout \o r.out
           /\ IF r.raised
              THEN /\ cpc' = "hook_raised"
                   /\ exitCode' = IF program = "cli" THEN 1 ELSE exitCode
              ELSE UNCHANGED <<cpc, exitCode>>
    /\ UNCHANGED <<program, args, urls, hasCb, installed, opts, libCalls, guiVars>>

\* ydl.download(urls) returns, or raises
LibFinish(ok) ==
    /\ program \in {"cli", "lib"}
    /\ cpc = "library"
    /\ IF ok
       THEN /\ cpc' = IF program = "cli" THEN "exited" ELSE "returned"
            /\ exitCode' = IF program = "cli" THEN 0 ELSE exitCode
       ELSE /\ cpc' = Raised
            /\ exitCode' = IF program = "cli" THEN 1 ELSE exitCode
    /\ UNCHANGED <<program, args, urls, hasCb, installed, opts, libCalls,
                   hookLog, forwarded, stdout, guiVars>>

----------------------------------------------------------------------------
(* gui.py: text helpers *)

IsSpace(c) == c \in {" ", "\n", "\t"}

RECURSIVE LStrip(_)
LStrip(s) == IF s # <<>> /\ IsSpace(s[1]) THEN LStrip(Tail(s)) ELSE s
RECURSIVE RStrip(_)
RStrip(s) == IF s # <<>> /\ IsSpace(s[Len(s)])
             THEN RStrip(SubSeq(s, 1, Len(s) - 1)) ELSE s
\* str.strip()
Strip(s) == RStrip(LStrip(s))

\* line.rstrip('\n')
RECURSIVE RStripNewline(_)
RStripNewline(s) == IF s # <<>> /\ s[Len(s)] = "\n"
                    THEN RStripNewline(SubSeq(s, 1, Len(s) - 1)) ELSE s

\* the pieces of s between occurrences of c; no empty piece after a final c
RECURSIVE SplitAt(_, _)
SplitAt(s, c) ==
    IF s = <<>> THEN <<>>
    ELSE IF \E i \in 1..Len(s) : s[i] = c
         THEN LET i == CHOOSE k \in 1..Len(s) :
                           s[k] = c /\ \A j \in 1..(k - 1) : s[j] # c
              IN  <<SubSeq(s, 1, i - 1)>> \o SplitAt(SubSeq(s, i + 1, Len(s)), c)
         ELSE <<s>>

\* str.splitlines()
SplitLines(s) == SplitAt(s, "\n")

RECURSIVE JoinWith(_, _)
JoinWith(parts, c) ==
    IF parts = <<>> THEN <<>>
    ELSE IF Len(parts) = 1 THEN parts[1]
    ELSE parts[1] \o <<c>> \o JoinWith(Tail(parts), c)

NotDotPart(p) == p # <<>> /\ p # <<".">>

\* str(Path(a) / b) for a one-component relative b: pathlib drops empty and
\* '.' components and a trailing '/'
PathStr(a, b) ==
    (IF a # <<>> /\ a[1] = "/" THEN <<"/">> ELSE <<>>)
        \o JoinWith(SelectSeq(SplitAt(a, "/"), NotDotPart) \o <<b>>, "/")

MatchAt(s, p, lit) ==
    /\ p + Len(lit) - 1 <= Len(s)
    /\ \A i \in 1..Len(lit) : s[p + i - 1] = lit[i]

\* the first position from p on that holds no whitespace (Len(s) + 1 if none)
SkipSpaces(s, p) ==
    CHOOSE q \in p..(Len(s) + 1) :
        /\ \A j \in p..(q - 1) : IsSpace(s[j])
        /\ q = Len(s) + 1 \/ ~IsSpace(s[q])

\* the length of the run of digits that starts at p
DigitRun(s, p) ==
    CHOOSE n \in 0..(Len(s) + 1 - p) :
        /\ \A j \in p..(p + n - 1) : IsDigit(s[j])
        /\ p + n = Len(s) + 1 \/ ~IsDigit(s[p + n])

CharAt(s, p) == IF p \in 1..Len(s) THEN s[p] ELSE ""

Tag == <<"[", "d", "o", "w", "n", "l", "o", "a", "d", "]">>
DestWord == <<"D", "e", "s", "t", "i", "n", "a", "t", "i", "o", "n", ":">>

\* r"\[download\]\s+Destination:\s+(.*)" matched at position p: <<group 1>>, or <<>>
DestAt(s, p) ==
    LET q == p + Len(Tag)
        r == SkipSpaces(s, q)
        t == r + Len(DestWord)
    IN  IF MatchAt(s, p, Tag) /\ q <= Len(s) /\ r > q /\ MatchAt(s, r, DestWord)
           /\ t <= Len(s) /\ SkipSpaces(s, t) > t
        THEN <<SubSeq(s, SkipSpaces(s, t), Len(s))>>
        ELSE <<>>

\* r"\[download\]\s+(\d{1,3}(?:\.\d)?)%" matched at position p: <<group 1>>, or <<>>
ProgAt(s, p) ==
    LET q == p + Len(Tag)
        r == SkipSpaces(s, q)
        n == DigitRun(s, r)
        e == r + n
    IN  IF MatchAt(s, p, Tag) /\ q <= Len(s) /\ r > q /\ r <= Len(s) /\ n \in 1..3
        THEN IF CharAt(s, e) = "%" THEN <<SubSeq(s, r, e - 1)>>
             ELSE IF CharAt(s, e) = "." /\ IsDigit(CharAt(s, e + 1))
                     /\ CharAt(s, e + 2) = "%"
                  THEN <<SubSeq(s, r, e + 1)>>
                  ELSE <<>>
        ELSE <<>>

\* dest_re.search(line): the leftmost match
dest_search(s) ==
    IF \E p \in 1..Len(s) : DestAt(s, p) # <<>>
    THEN DestAt(s, CHOOSE p \in 1..Len(s) :
                       DestAt(s, p) # <<>> /\ \A k \in 1..(p - 1) : DestAt(s, k) = <<>>)
    ELSE <<>>

\* prog_re.search(line): the leftmost match
prog_search(s) ==
    IF \E p \in 1..Len(s) : ProgAt(s, p) # <<>>
    THEN ProgAt(s, CHOOSE p \in 1..Len(s) :
                       ProgAt(s, p) # <<>> /\ \A k \in 1..(p - 1) : ProgAt(s, k) = <<>>)
    ELSE <<>>

\* int(float(g)) of a match of \d{1,3}(?:\.\d)?: the digits before the point
IntOfFloat(g) == IntOfDigits(SubSeq(g, 1, DigitRun(g, 1)))

----------------------------------------------------------------------------
(* gui.py: signals and the Worker *)

Signal(sig, status, filename, percent, message) ==
    [sig |-> sig, status |-> status, filename |-> filename, percent |-> percent,
     message |-> message]
\* progress.emit({'status': 'downloading', 'filename': ..., 'percent': ...})
Downloading(f, pct) == Signal("progress", "downloading", f, pct, <<>>)
\* progress.emit({'status': 'finished', 'filename': ...})
FinishedEvent(f) == Signal("progress", "finished", f, -1, <<>>)
\* error.emit(str(e))
ErrorSignal(msg) == Signal("error", "", <<>>, -1, msg)
\* finished.emit()
FinishedSignal == Signal("finished", "", <<>>, -1, <<>>)

WorkerDefaultQuality == 192

\* Worker.__init__
WorkerInit(u, output, fmt, quality) ==
    [urls |-> u, output |-> output, fmt |-> fmt,
     quality |-> IF Truthy(quality) THEN quality[1] ELSE WorkerDefaultQuality]

\* the three alternatives of the mp4 format expression of run
WorkerMp4Format == <<"bestvideo[ext=mp4][height<=1080][vcodec^=avc1]+bestaudio[ext=m4a]",
                     "bestvideo[height<=1080]+bestaudio",
                     "best[height<=1080]">>

\* lines 28-41: the command line of the external tool
WorkerCmd(w) ==
    [head |-> <<"-m", "yt_dlp", "--newline", "--ignore-errors", "--no-playlist">>,
     outtmpl |-> PathStr(w.output, Template),
     format |-> IF w.fmt = "mp4" THEN WorkerMp4Format
                ELSE IF w.fmt = "mp3" THEN Mp3Format ELSE GenericFormat,
     extra |-> IF w.fmt = "mp4" THEN <<<<"--merge-output-format">>, <<"mp4">>>>
               ELSE IF w.fmt = "mp3"
                    THEN <<<<"-x">>, <<"--audio-format">>, <<"mp3">>,
                           <<"--audio-quality">>, Str(w.quality) \o <<"K">>>>
                    ELSE <<>>,
     urls |-> w.urls]

\* lines 58-68, one line of the tool's output: the new current_file and what is
\* emitted
ProcessLine(rawline, cur) ==
    LET line == RStripNewline(rawline)
        m_dest == dest_search(line)
        file == IF m_dest # <<>> THEN m_dest[1] ELSE cur
        m == prog_search(line)
    IN  [current_file |-> file,
         emit |-> IF m # <<>> THEN <<Downloading(file, IntOfFloat(m[1]))>> ELSE <<>>]

ExitError(status) == <<"yt-dlp exited with code", status>>
LaunchError == <<"Popen failed", -1>>

WaitOutcomeAlwaysFinished(status, cur) ==
    [emit |-> <<FinishedEvent(cur)>>,
     exc |-> IF status = 0 THEN <<>> ELSE ExitError(status)]

\* lines 70-74: after the loop
WaitOutcome(status, cur) ==
    IF status = 0 THEN [emit |-> <<FinishedEvent(cur)>>, exc |-> <<>>]
    ELSE [emit |-> <<>>, exc |-> ExitError(status)]

FinallyEmitsNothing == <<>>

\* lines 77-78
FinallyEmits == <<FinishedSignal>>

----------------------------------------------------------------------------
(* What the external tool writes *)

PlainFile == <<"m", ".", "m", "p", "4">>
\* a file whose title reads like a progress line
PercentTitleFile == Tag \o <<" ", "7", "%", ".", "m", "p", "4">>

Msg(kind, file, whole, tenth) ==
    [kind |-> kind, file |-> file, whole |-> whole, tenth |-> tenth]
Messages ==
    { Msg("dest", PlainFile, 0, -1), Msg("dest", PercentTitleFile, 0, -1),
      Msg("pct", <<>>, 42, 5), Msg("pct", <<>>, 150, 0),
      Msg("other", <<>>, 0, -1) }

\* the line of text of a message, as read from the pipe
Render(m) ==
    (IF m.kind = "dest"
        THEN Tag \o <<" ">> \o DestWord \o <<" ">> \o m.file
     ELSE IF m.kind = "pct"
        THEN Tag \o <<" ", " ">> \o Str(m.whole)
                 \o (IF m.tenth >= 0 THEN <<".">> \o Str(m.tenth) ELSE <<>>)
                 \o <<"%", " ", "o", "f">>
     ELSE <<"[", "i", "n", "f", "o", "]", " ", "x">>) \o <<"\n">>

ExitCodes == {0, 1, 2}

----------------------------------------------------------------------------
(* gui.py: MainWindow *)

LogEntry(text, filename, pct, message) ==
    [text |-> text, filename |-> filename, pct |-> pct, message |-> message]

\* what url_edit can hold
RawTexts == { <<>>, <<" ", "\n">>, <<" ", "a", "\n", " ", "\n", "b", "\n">> }
\* what output_edit can hold
GuiOutputs == { <<"/", "t">> }
\* format_combo and quality_spin: mp4, or mp3 with a value of the spin box
GuiChoices == { <<"mp4", 64>>, <<"mp3", 320>> }

NoUrlsNever(raw) == FALSE

\* lines 149-150: if not raw
NoUrls(raw) == Strip(raw) = <<>>

NonEmptyLine(l) == Strip(l) # <<>>
StripEach(ls) == [i \in 1..Len(ls) |-> Strip(ls[i])]
\* line 153
UrlsOf(raw) == StripEach(SelectSeq(SplitLines(Strip(raw)), NonEmptyLine))

StartBtnLeftEnabled == TRUE

\* line 176: start_btn.setEnabled(False)
StartBtnWhileRunning == FALSE

InitGui ==
    /\ program = "gui"
    /\ CliIdle
    /\ GuiIdle

\* MainWindow.start: the click reaches it only while the button is enabled
Start(raw, output_dir, mkdirOk, choice) ==
    /\ program = "gui"
    /\ start_btn
    /\ IF NoUrls(raw) THEN
            /\ log' = <<LogEntry("No hay URLs", <<>>, -1, <<>>)>>
            /\ UNCHANGED <<start_btn, worker, wpc, proc, current_file, exc, ret,
                           written, delivered, activeWorkers>>
       ELSE IF ~mkdirOk THEN
            /\ log' = <<LogEntry("No se pudo crear el directorio", <<>>, -1, <<>>)>>
            /\ UNCHANGED <<start_btn, worker, wpc, proc, current_file, exc, ret,
                           written, delivered, activeWorkers>>
       ELSE /\ worker' = WorkerInit(UrlsOf(raw), output_dir, choice[1],
                                    IF choice[1] = "mp3" THEN Some(choice[2]) ELSE None)
            /\ proc' = <<>>
            /\ current_file' = <<>>
            /\ exc' = <<>>
            /\ ret' = -1
            /\ written' = <<>>
            /\ delivered' = <<>>
            /\ start_btn' = StartBtnWhileRunning
            /\ log' = <<LogEntry("Iniciando descarga...", <<>>, -1, <<>>)>>
            /\ wpc' = "run"
            /\ activeWorkers' = activeWorkers + 1
    /\ UNCHANGED <<program, cliVars, sigQueue, progress_bar, file_label, procsRunning>>

\* Worker.run, lines 28-52: build the command and start the process
WorkerLaunch(popenOk) ==
    /\ program = "gui"
    /\ wpc = "run"
    /\ IF popenOk
       THEN /\ proc' = <<WorkerCmd(worker)>>
            /\ procsRunning' = procsRunning + 1
            /\ current_file' = <<>>
            /\ wpc' = "reading"
            /\ exc' = exc
       ELSE /\ exc' = LaunchError
            /\ wpc' = "except"
            /\ UNCHANGED <<proc, procsRunning, current_file>>
    /\ UNCHANGED <<program, cliVars, start_btn, worker, ret, sigQueue, log,
                   progress_bar, file_label, written, delivered, activeWorkers>>

\* Worker.run, lines 57-68: the tool writes a line and the loop handles it
ReadLine(m) ==
    /\ program = "gui"
    /\ wpc = "reading"
    /\ Len(written) < MaxLines
    /\ LET r == ProcessLine(Render(m), current_file)
       IN  /\ current_file' = r.current_file
           /\ sigQueue' = sigQueue \o r.emit
    /\ written' = Append(written, m)
    /\ UNCHANGED <<program, cliVars, start_btn, worker, wpc, proc, exc, ret, log,
                   progress_bar, file_label, delivered, activeWorkers, procsRunning>>

\* Worker.run, lines 57 and 70-74: the tool closes its output and exits with status
ReadEOF(status) ==
    /\ program = "gui"
    /\ wpc = "reading"
    /\ ret' = status
    /\ LET o == WaitOutcome(status, current_file)
       IN  /\ sigQueue' = sigQueue \o o.emit
           /\ exc' = o.exc
           /\ wpc' = IF o.exc = <<>> THEN "finally" ELSE "except"
    /\ procsRunning' = procsRunning - 1
    /\ UNCHANGED <<program, cliVars, start_btn, worker, proc, current_file, log,
                   progress_bar, file_label, written, delivered, activeWorkers>>

\* Worker.run, lines 75-76
WorkerExcept ==
    /\ program = "gui"
    /\ wpc = "except"
    /\ sigQueue' = Append(sigQueue, ErrorSignal(exc))
    /\ wpc' = "finally"
    /\ UNCHANGED <<program, cliVars, start_btn, worker, proc, current_file, exc,
                   ret, log, progress_bar, file_label, written, delivered,
                   activeWorkers, procsRunning>>

\* Worker.run, lines 77-78
WorkerFinally ==
    /\ program = "gui"
    /\ wpc = "finally"
    /\ sigQueue' = sigQueue \o FinallyEmits
    /\ wpc' = "done"
    /\ activeWorkers' = activeWorkers - 1
    /\ UNCHANGED <<program, cliVars, start_btn, worker, proc, current_file, exc,
                   ret, log, progress_bar, file_label, written, delivered, procsRunning>>

\* QProgressBar.setValue: a value outside the range 0..100 is ignored
SetValue(v) == IF v \in 0..100 THEN v ELSE progress_bar

\* the main thread dispatches the oldest queued signal to its slot:
\* _on_progress, _on_error or _on_finished
Deliver ==
    /\ program = "gui"
    /\ sigQueue # <<>>
    /\ LET d == Head(sigQueue)
       IN  /\ sigQueue' = Tail(sigQueue)
           /\ delivered' = Append(delivered, d)
           /\ IF d.sig = "progress" /\ d.status = "downloading" THEN
                   /\ progress_bar' = SetValue(d.percent)
                   /\ file_label' = d.filename
                   /\ log' = Append(log, LogEntry("progress", d.filename, d.percent, <<>>))
                   /\ UNCHANGED start_btn
              ELSE IF d.sig = "progress" /\ d.status = "finished" THEN
                   /\ progress_bar' = 100
                   /\ file_label' = d.filename
                   /\ log' = Append(log, LogEntry("Finished", d.filename, -1, <<>>))
                   /\ UNCHANGED start_btn
              ELSE IF d.sig = "error" THEN
                   /\ log' = Append(log, LogEntry("Error", <<>>, -1, d.message))
                   /\ UNCHANGED <<progress_bar, file_label, start_btn>>
              ELSE /\ log' = Append(log, LogEntry("Tarea finalizada", <<>>, -1, <<>>))
                   /\ start_btn' = TRUE
                   /\ progress_bar' = 0
                   /\ file_label' = <<>>
    /\ UNCHANGED <<program, cliVars, worker, wpc, proc, current_file, exc, ret,
                   written, activeWorkers, procsRunning>>

----------------------------------------------------------------------------
(* The programs *)

Init == InitCli \/ InitLib \/ InitGui

WorkerStep ==
    \/ \E popenOk \in BOOLEAN : WorkerLaunch(popenOk)
    \/ WorkerExcept
    \/ WorkerFinally

ToolExits == \E status \in ExitCodes : ReadEOF(status)

Next ==
    \/ ParseArgs
    \/ Download
    \/ \E d \in Records, cbRaises \in BOOLEAN : LibProgress(d, cbRaises)
    \/ \E ok \in BOOLEAN : LibFinish(ok)
    \/ \E raw \in RawTexts, o \in GuiOutputs, mkdirOk \in BOOLEAN, c \in GuiChoices :
           Start(raw, o, mkdirOk, c)
    \/ WorkerStep
    \/ \E m \in Messages : ReadLine(m)
    \/ ToolExits
    \/ Deliver

Spec == Init /\ [][Next]_vars

\* The worker thread and the main thread's event loop keep running, and the
\* external tool ends its output at some point.
FairSpec ==
    Spec /\ WF_vars(WorkerStep) /\ WF_vars(ToolExits) /\ WF_vars(Deliver)

----------------------------------------------------------------------------
(* The options builder applied to every request *)

InitOpts ==
    /\ program = "opts"
    /\ args \in AllArgs
    /\ urls = <<>> /\ hasCb = FALSE /\ installed = TRUE
    /\ cpc = "init" /\ exitCode = -1 /\ opts = <<>> /\ libCalls = <<>>
    /\ hookLog = <<>> /\ forwarded = <<>> /\ stdout = <<>>
    /\ GuiIdle

BuildOpts ==
    /\ program = "opts"
    /\ cpc = "init"
    /\ opts' = build_ydl_opts(args)
    /\ cpc' = "built"
    /\ UNCHANGED <<program, args, urls, hasCb, installed, exitCode, libCalls,
                   hookLog, forwarded, stdout, guiVars>>

NextOpts == BuildOpts

SpecOpts == InitOpts /\ [][NextOpts]_vars

----------------------------------------------------------------------------
(* Properties *)

\* the signals the worker emitted in the current run, in order
Emitted == delivered \o sigQueue

IsDownloading(sg) == sg.sig = "progress" /\ sg.status = "downloading"
IsFinishedEvent(sg) == sg.sig = "progress" /\ sg.status = "finished"
IsError(sg) == sg.sig = "error"
IsTerminal(sg) == IsFinishedEvent(sg) \/ IsError(sg)
IsFinishedSignal(sg) == sg.sig = "finished"
Count(q, P(_)) == Cardinality({i \in DOMAIN q : P(q[i])})

Built == program = "opts" /\ cpc = "built"

\* C1: for a request with format mp4 the selector that build_ydl_opts returns
\* is the chain of exactly three alternatives: best video of height <= 1080
\* plus best audio, then best single stream of height <= 1080, then the
\* unconstrained 'best' as the last fallback.
C1_Mp4ChainEndsInBest ==
    (Built /\ args.format = "mp4") =>
        opts.format = <<"bestvideo[height<=1080]+bestaudio", "best[height<=1080]", "best">>

\* C2: for a request with format mp3 whose quality Q is unset or a positive
\* integer, the selector starts with 'bestaudio' and there is exactly one
\* post-processing directive, with codec mp3 and quality Q, or 192 when Q is
\* unset; for any other format there is no post-processing directive.
C2_Mp3Postprocessor ==
    Built =>
        IF args.format = "mp3"
        THEN /\ opts.format[1] = "bestaudio"
             /\ "postprocessors" \in DOMAIN opts
             /\ Len(opts.postprocessors) = 1
             /\ opts.postprocessors[1].preferredcodec = "mp3"
             /\ args.quality = None =>
                    opts.postprocessors[1].preferredquality = <<"1", "9", "2">>
             /\ (args.quality # None /\ args.quality[1] > 0) =>
                    /\ \A i \in DOMAIN opts.postprocessors[1].preferredquality :
                           IsDigit(opts.postprocessors[1].preferredquality[i])
                    /\ IntOfDigits(opts.postprocessors[1].preferredquality)
                           = args.quality[1]
        ELSE "postprocessors" \notin DOMAIN opts

C2_Witness ==
    /\ Built /\ args.format = "mp3" /\ args.quality = Some(256)
    /\ opts.postprocessors[1].preferredquality = <<"2", "5", "6">>

\* C3: the output template is the output directory followed by the title and
\* extension placeholders (after a '/' when the directory is not empty and
\* does not end in one), so it starts with the output directory, and every
\* request with the same output directory gets the same template, whatever its
\* format, quality, playlist and overwrite values.
C3_OuttmplFromOutputOnly ==
    Built =>
        /\ IsPrefix(args.output, opts.outtmpl)
        /\ opts.outtmpl \in {args.output \o Template,
                             args.output \o <<"/">> \o Template}
        /\ \A a \in AllArgs :
               a.output = args.output => build_ydl_opts(a).outtmpl = opts.outtmpl

C3_Witness ==
    /\ Built /\ args.overwrite /\ args.format = "mp3" /\ args.output = <<"/", "t">>
    /\ opts.outtmpl = <<"/", "t", "/">> \o Template

\* the file of the last destination announcement among ms, '' if none
LastDest(ms) ==
    IF \E i \in DOMAIN ms : ms[i].kind = "dest"
    THEN ms[CHOOSE i \in DOMAIN ms :
                /\ ms[i].kind = "dest"
                /\ \A j \in DOMAIN ms : ms[j].kind = "dest" => j <= i].file
    ELSE <<>>

\* the events the claim C4 expects for the tool's messages ms
RECURSIVE ExpectedEvents(_)
ExpectedEvents(ms) ==
    IF ms = <<>> THEN <<>>
    ELSE LET front == SubSeq(ms, 1, Len(ms) - 1)
             last == ms[Len(ms)]
         IN  ExpectedEvents(front)
                 \o (IF last.kind = "pct"
                     THEN <<Downloading(LastDest(front), last.whole)>>
                     ELSE <<>>)

\* C4: the downloading events of a run are, in order, one per percentage line
\* the tool wrote, each with the file of the most recent destination line
\* before it ('' if none) and the reported number truncated to an integer;
\* destination lines and other lines yield no event.
C4_OneEventPerPercentLine ==
    program = "gui" => SelectSeq(Emitted, IsDownloading) = ExpectedEvents(written)

\* C5: when the tool exits with a non-zero status, the run emits no finished
\* progress event, the error it emits carries that status and comes after
\* every downloading event, and once the error is shown in the log every
\* downloading event of the run has been dispatched before it, in the order
\* emitted.
C5_ErrorAfterAllProgress ==
    (program = "gui" /\ ret > 0) =>
        /\ Count(Emitted, IsFinishedEvent) = 0
        /\ \A i \in DOMAIN Emitted :
               IsError(Emitted[i]) =>
                   /\ Emitted[i].message = <<"yt-dlp exited with code", ret>>
                   /\ \A j \in DOMAIN Emitted : IsDownloading(Emitted[j]) => j < i
        /\ wpc \in {"finally", "done"} => Count(Emitted, IsError) = 1
        /\ \A i \in DOMAIN log :
               log[i].text = "Error" =>
                   /\ Count(sigQueue, IsDownloading) = 0
                   /\ \A j \in DOMAIN log : log[j].text = "progress" => j < i
                   /\ Count(delivered, IsDownloading) = Count(Emitted, IsDownloading)

C5_Witness ==
    /\ program = "gui" /\ ret = 2
    /\ Count(delivered, IsDownloading) = 2
    /\ \E i \in DOMAIN log : log[i].text = "Error" /\ log[i].message[2] = 2

\* C7: the signals of one run are zero or more downloading events, then one
\* terminal outcome (a finished progress event or an error, never both), then
\* the finished signal, once, as the last one; before the run has reached its
\* end no terminal outcome has been emitted, and when it is done the terminal
\* outcome and the finished signal have both been emitted.
C7_RunLifecycle ==
    program = "gui" =>
        /\ \A i, j \in DOMAIN Emitted :
               (i < j /\ IsDownloading(Emitted[j])) => IsDownloading(Emitted[i])
        /\ Count(Emitted, IsTerminal) <= 1
        /\ Count(Emitted, IsFinishedSignal) <= 1
        /\ \A i \in DOMAIN Emitted :
               IsFinishedSignal(Emitted[i]) =>
                   /\ i = Len(Emitted)
                   /\ \E j \in 1..(i - 1) : IsTerminal(Emitted[j])
        /\ wpc = "none" => Emitted = <<>>
        /\ wpc \in {"run", "reading", "except"} =>
               Count(Emitted, IsTerminal) = 0 /\ Count(Emitted, IsFinishedSignal) = 0
        /\ wpc = "finally" =>
               Count(Emitted, IsTerminal) = 1 /\ Count(Emitted, IsFinishedSignal) = 0
        /\ wpc = "done" =>
               Count(Emitted, IsTerminal) = 1 /\ Count(Emitted, IsFinishedSignal) = 1

C7_Witness ==
    /\ program = "gui" /\ wpc = "done" /\ sigQueue = <<>>
    /\ Count(delivered, IsDownloading) = 2
    /\ Count(delivered, IsFinishedEvent) = 1

\* C8: every downloading event the worker emits has a percent in 0..100.
C8_PercentInRange ==
    program = "gui" =>
        \A i \in DOMAIN Emitted :
            IsDownloading(Emitted[i]) => Emitted[i].percent \in 0..100

\* the hook returned normally for every record, download() was never ended by
\* the hook, every record reached the callback in order, and without a
\* callback only well-formed records printed anything
C9_HookNeverRaises ==
    program \in {"cli", "lib"} =>
        /\ cpc # "hook_raised"
        /\ \A i \in DOMAIN hookLog : hookLog[i].returned
        /\ hasCb => forwarded = [i \in DOMAIN hookLog |-> hookLog[i].d]
        /\ ~hasCb =>
               /\ forwarded = <<>>
               /\ Len(stdout) <= Cardinality({i \in DOMAIN hookLog :
                                                  ~Malformed(hookLog[i].d)})

\* a line of the tool that is neither a destination nor a percentage line
\* emits nothing, leaves current_file alone and leaves the loop reading
C9_NoiseLineStep ==
    (/\ program = "gui"
     /\ Len(written') = Len(written) + 1
     /\ written'[Len(written')].kind = "other")
        => (sigQueue' = sigQueue /\ current_file' = current_file /\ wpc' = "reading")

\* C9: a progress unit that cannot be handled never ends the run: in
\* download() the hook returns normally for a malformed record and for one
\* whose callback raises, and the later records are still passed on in order;
\* in Worker.run an unparseable line emits nothing and the loop goes on.
C9_TranslatorNeverAborts == []C9_HookNeverRaises /\ [][C9_NoiseLineStep]_vars

C9_Witness ==
    /\ program = "lib" /\ hasCb /\ cpc = "returned"
    /\ Len(hookLog) = 3
    /\ hookLog[1].cbRaised /\ Malformed(hookLog[2].d) /\ ~hookLog[3].cbRaised
    /\ Len(forwarded) = 3

\* C6 as stated: with an empty URL list no library download call and no
\* external process is started and no progress event is emitted, whichever
\* entry point the request comes through.
C6_EmptyRejectedEverywhere ==
    /\ (program \in {"cli", "lib"} /\ urls = <<>>) =>
           libCalls = <<>> /\ hookLog = <<>>
    /\ program = "gui" =>
           /\ wpc # "none" => worker.urls # <<>>
           /\ proc # <<>> => proc[1].urls # <<>>

\* C6, amended: through the window's start action and through the command
\* line (main / parse_args) a request with an empty URL list starts no
\* library download call and no external process and emits no progress
\* event; the command line exits with status 2.
C6_EmptyRejectedByFrontEnds ==
    /\ (program = "cli" /\ urls = <<>>) =>
           /\ libCalls = <<>> /\ hookLog = <<>> /\ opts = <<>>
           /\ cpc \in {"init", "exited"}
           /\ cpc = "exited" => exitCode = 2
    /\ program = "gui" =>
           /\ wpc # "none" => worker.urls # <<>>
           /\ proc # <<>> => proc[1].urls # <<>>
           /\ wpc = "none" => (Emitted = <<>> /\ procsRunning = 0 /\ proc = <<>>)

C6_Witness ==
    /\ program = "gui" /\ wpc = "none"
    /\ log = <<LogEntry("No hay URLs", <<>>, -1, <<>>)>>

\* at most one worker and one external process; while the button is enabled
\* none is running
C10_OneWorker ==
    program = "gui" =>
        /\ activeWorkers <= 1
        /\ procsRunning <= 1
        /\ start_btn => (activeWorkers = 0 /\ procsRunning = 0 /\ wpc \in {"none", "done"})
        /\ wpc \in {"run", "reading", "except", "finally"} => ~start_btn

\* the button is enabled again only by the dispatch of the finished signal of
\* a worker that is done
C10_ReenableStep ==
    (~start_btn /\ start_btn') =>
        (wpc = "done" /\ sigQueue # <<>> /\ IsFinishedSignal(Head(sigQueue)))

\* C10: through the start action at most one worker, and one external
\* process, runs at a time: the button is disabled while a worker runs, only
\* the worker's finished signal enables it again, and on every path of the
\* run it is enabled again in the end.
C10_SingleRunThenReenabled ==
    /\ []C10_OneWorker
    /\ [][C10_ReenableStep]_vars
    /\ ((program = "gui" /\ ~start_btn) ~> start_btn)

C10_Witness ==
    /\ program = "gui" /\ start_btn /\ wpc = "done" /\ exc = LaunchError
    /\ \E i \in DOMAIN log : log[i].text = "Tarea finalizada"

====
